---- MODULE Spec2Model ----
(***************************************************************************)
(* Model of the CookieJar class of ako-deno/cookies (mod.ts, the version   *)
(* with the `ms` duration parser, delete(name, opts) and the clear() skip  *)
(* rule): a Map<string, string> seeded from the request's Cookie header,   *)
(* whose get/set/delete/clear methods append Set-Cookie directives to the  *)
(* response.                                                               *)
(*                                                                         *)
(* JavaScript values are tuples of integers.  A string is the tuple of its *)
(* character codes ("n" is <<110>>, "" is <<>>).  Values that are not      *)
(* strings (undefined, null, booleans, numbers, dates) are tuples whose    *)
(* first element is a tag above every character code.  A Keygrip digest is *)
(* a string; it is modelled as an opaque term over the key and the signed  *)
(* data (a collision-free HMAC), tagged with the code 1000.               *)
(***************************************************************************)
EXTENDS Integers, Sequences, FiniteSets, TLC

VARIABLES store, headers, keys, secure, call, ret, pre, ncalls

vars == <<store, headers, keys, secure, call, ret, pre, ncalls>>

----------------------------------------------------------------------------
(* JavaScript values *)

Undefined == <<1001>>
Null == <<1002>>
True == <<1003>>
False == <<1004>>
Num(n) == <<1005, n>>
DateAt(base, t) == <<1006, base, t>>

\* new Date(0)
Epoch == DateAt(0, 0)

\* typeof x == "string"
IsString(x) == x = <<>> \/ x[1] <= 1000

\* typeof x == "number"
IsNumber(x) == x # <<>> /\ x[1] = 1005

\* JavaScript truthiness of a value: undefined, null, false, "" and 0 are falsy
Truthy(x) == x \notin {Undefined, Null, False, <<>>, Num(0)}

\* a ?? b
Coalesce(a, b) == IF a \in {Undefined, Null} THEN b ELSE a

\* `${x}` : string interpolation of the values the jar interpolates
Interp(x) ==
    IF x = Undefined THEN <<117, 110, 100, 101, 102, 105, 110, 101, 100>>
    ELSE IF x = Null THEN <<110, 117, 108, 108>>
    ELSE IF x = True THEN <<116, 114, 117, 101>>
    ELSE IF x = False THEN <<102, 97, 108, 115, 101>>
    ELSE x

\* ".sig" and "="
SIG == <<46, 115, 105, 103>>
EQ == <<61>>

\* `${name}=${value}`
Data(name, value) == Interp(name) \o EQ \o Interp(value)

\* String(x).toLowerCase() on the ASCII letters
ToLowerCase(s) ==
    [i \in 1..Len(s) |-> IF s[i] >= 65 /\ s[i] <= 90 THEN s[i] + 32 ELSE s[i]]

\* String.prototype.lastIndexOf (0-based, -1 when absent)
LastIndexOf(s, pat) ==
    LET hits == {i \in 0..(Len(s) - Len(pat)) :
                    SubSeq(s, i + 1, i + Len(pat)) = pat}
    IN  IF hits = {} THEN -1
        ELSE CHOOSE i \in hits : \A j \in hits : j <= i

\* String.prototype.substring(0, idx)
Substring0(s, idx) == SubSeq(s, 1, idx)

----------------------------------------------------------------------------
(* Keygrip: a rotating key list, most recent key first *)

\* the digest of data under one key (an opaque, collision-free term)
Hmac(data, key) == <<1000>> \o key \o <<1000>> \o data

IsDigest(s) == s # <<>> /\ s[1] = 1000

\* Keygrip.sign: always the first key
sign(ks, data) == Hmac(data, ks[1])

\* Keygrip.index: position of the first key whose digest matches, else -1
index(ks, data, digest) ==
    LET hits == {i \in 1..Len(ks) : Hmac(data, ks[i]) = digest}
    IN  IF hits = {} THEN -1
        ELSE (CHOOSE i \in hits : \A j \in hits : i <= j) - 1

\* this.#keys is set iff a non-empty key list was given
HasKeys(ks) == ks # <<>>

----------------------------------------------------------------------------
(* FIELD_CONTENT_REGEXP = /^[\u0009 -~\u0080-ÿ]+$/ *)

FieldChar(c) == c = 9 \/ (c >= 32 /\ c <= 126) \/ (c >= 128 /\ c <= 255)

\* FIELD_CONTENT_REGEXP.test(s); a digest is base64url text and always matches
FIELD_CONTENT_REGEXP(s) ==
    IF IsDigest(s) THEN TRUE
    ELSE Len(s) > 0 /\ \A i \in 1..Len(s) : FieldChar(s[i])

----------------------------------------------------------------------------
(* The Map<string, string> the jar extends: entries in insertion order *)

Has(st, name) == \E i \in 1..Len(st) : st[i][1] = name

MapGet(st, name) ==
    IF Has(st, name)
    THEN st[CHOOSE i \in 1..Len(st) : st[i][1] = name][2]
    ELSE Undefined

\* super.delete that leaves the entry in the Map
MapDeleteKeeps(st, name) == st

\* super.delete that also removes the entry of name + ".sig"
MapDeletePair(st, name) ==
    LET keep(e) == e[1] # name /\ e[1] # name \o SIG
    IN  SelectSeq(st, keep)

MapDelete(st, name) ==
    LET keep(e) == e[1] # name
    IN  SelectSeq(st, keep)

----------------------------------------------------------------------------
(* Option bags.  given = FALSE stands for an options argument that was not *)
(* passed; every field of a bag that was passed may still be undefined.    *)

NoOpts ==
    [given |-> FALSE, signed |-> Undefined, overwrite |-> Undefined,
     secure |-> Undefined, path |-> Undefined, domain |-> Undefined,
     sameSite |-> Undefined, maxAge |-> Undefined, expires |-> Undefined,
     httpOnly |-> Undefined]

\* {}
EmptyOpts == [NoOpts EXCEPT !.given = TRUE]

\* options ?? {}
OrEmpty(opts) == IF opts.given THEN opts ELSE EmptyOpts

----------------------------------------------------------------------------
(* Collaborators: std/http setCookie and deleteCookie, and the ms parser *)

\* setCookie(res, cookie): one Set-Cookie directive is appended
SetCookieHeader(hd, cookie) == Append(hd, cookie)

\* deleteCookie(res, name): setCookie(res, {name, value: "", expires: new Date(0)})
deleteCookie(hd, name) ==
    SetCookieHeader(hd, [name |-> name, value |-> <<>>, secure |-> Undefined,
                    domain |-> Undefined, path |-> Undefined,
                    httpOnly |-> Undefined, sameSite |-> Undefined,
                    maxAge |-> Undefined, expires |-> Epoch])

\* ms("1s") is 1000; a string ms cannot parse gives undefined
ms(s) == IF s = <<49, 115>> THEN Num(1000) ELSE Undefined

\* new Date(x) for a Date, the sum Date.now() + t, a number, or a string
NewDate(x) ==
    IF x[1] = 1006 THEN x
    ELSE IF x[1] = 1008 THEN DateAt(1, x[2])
    ELSE IF IsNumber(x) THEN DateAt(0, x[2])
    ELSE <<1007>> \o x

\* SAME_SITE[key]
SAME_SITE(key) ==
    IF key = <<116, 114, 117, 101>> THEN <<83, 116, 114, 105, 99, 116>>
    ELSE IF key = <<115, 116, 114, 105, 99, 116>> THEN <<83, 116, 114, 105, 99, 116>>
    ELSE IF key = <<108, 97, 120>> THEN <<76, 97, 120>>
    ELSE IF key = <<110, 111, 110, 101>> THEN <<78, 111, 110, 101>>
    ELSE Undefined

----------------------------------------------------------------------------
(* Results of a method: the store and headers it leaves, the error it      *)
(* throws ("none" when it returns) and the value it returns.               *)

Result(st, hd, err, val) == [store |-> st, headers |-> hd, err |-> err, ret |-> val]

\* the policy check with the jar's flag read the wrong way round
SecureRefusedInverted(opts) == secure /\ Truthy(opts.secure)

\* the policy check of the private setCookie
SecureRefused(opts) == ~secure /\ Truthy(opts.secure)

\* the sameSite check of the private setCookie
SameSiteRefused(opts) == Truthy(opts.sameSite) /\ ~IsString(opts.sameSite)

\* the maxAge check of the private setCookie
MaxAgeRefused(opts) ==
    /\ Truthy(opts.maxAge)
    /\ IsString(opts.maxAge)
    /\ ms(opts.maxAge) \in {Undefined, Null}

\* the default of signed with an explicit signed: false ignored
SignedWheneverKeys(signedOpt) == HasKeys(keys)

\* the default of signed taken as false whatever the keys
SignedDefaultFalse(signedOpt) == Truthy(Coalesce(signedOpt, False))

\* opts.signed ?? !!this.#keys
SignedDefault(signedOpt) ==
    Truthy(Coalesce(signedOpt, IF HasKeys(keys) THEN True ELSE False))

\* the cookie object the private setCookie builds
MakeCookie(name, value, opts) ==
    [name |-> name,
     value |-> value,
     secure |-> opts.secure,
     domain |-> opts.domain,
     path |-> IF opts.path = Undefined THEN <<47>> ELSE opts.path,
     httpOnly |-> IF opts.httpOnly = Undefined THEN True ELSE opts.httpOnly,
     sameSite |-> IF Truthy(opts.sameSite)
                  THEN SAME_SITE(ToLowerCase(Interp(opts.sameSite)))
                  ELSE opts.sameSite,
     maxAge |-> IF Truthy(opts.maxAge) /\ IsString(opts.maxAge)
                THEN Num(ms(opts.maxAge)[2] \div 1000)
                ELSE opts.maxAge,
     expires |-> IF Truthy(opts.expires)
                 THEN IF IsString(opts.expires) /\ IsNumber(ms(opts.expires))
                      THEN NewDate(<<1008, ms(opts.expires)[2]>>)
                      ELSE NewDate(opts.expires)
                 ELSE opts.expires]

\* private setCookie(name, value, opts): the headers it leaves and its error
setCookie(hd, name, value, opts) ==
    IF SecureRefused(opts) THEN [headers |-> hd, err |-> "Error"]
    ELSE IF SameSiteRefused(opts) THEN [headers |-> hd, err |-> "TypeError"]
    ELSE IF MaxAgeRefused(opts) THEN [headers |-> hd, err |-> "TypeError"]
    ELSE
      LET cookie == MakeCookie(name, value, opts)
          hd1 == SetCookieHeader(hd, cookie)
      IN  IF SignedDefault(opts.signed)
          THEN IF ~HasKeys(keys)
               THEN [headers |-> hd1, err |-> "Error"]
               ELSE LET sigName == cookie.name \o SIG
                        sigCookie ==
                          [cookie EXCEPT
                             !.name = sigName,
                             !.value = sign(keys, Data(sigName, cookie.value))]
                    IN  [headers |-> SetCookieHeader(hd1, sigCookie), err |-> "none"]
          ELSE [headers |-> hd1, err |-> "none"]

\* the options of delete with only maxAge forced
ExpireOptionsNoDate(opts) == [opts EXCEPT !.maxAge = <<>>]

\* opts.maxAge = ""; opts.expires = new Date(0)
ExpireOptions(opts) == [opts EXCEPT !.maxAge = <<>>, !.expires = Epoch]

\* delete(name, opts?)
delete(st, hd, name, opts) ==
    IF ~FIELD_CONTENT_REGEXP(name) THEN Result(st, hd, "TypeError", Undefined)
    ELSE IF opts.given
    THEN LET o == ExpireOptions(opts)
             r == setCookie(hd, name, <<>>, o)
         IN  IF r.err # "none" THEN Result(st, r.headers, r.err, Undefined)
             ELSE Result(MapDelete(st, name), r.headers, "none",
                         IF Has(st, name) THEN True ELSE False)
    ELSE Result(MapDelete(st, name), deleteCookie(hd, name), "none",
                IF Has(st, name) THEN True ELSE False)

\* set(name, value, options?)
set(st, hd, name, value, options) ==
    IF ~Truthy(value) /\ ~options.given
    THEN LET d == delete(st, hd, name, NoOpts)
         IN  Result(d.store, d.headers, d.err, Undefined)
    ELSE
      LET opts == OrEmpty(options)
      IN  IF ~Truthy(opts.overwrite) /\ Has(st, name)
          THEN Result(st, hd, "none", Undefined)
          ELSE IF ~FIELD_CONTENT_REGEXP(name)
          THEN Result(st, hd, "TypeError", Undefined)
          ELSE IF Truthy(value) /\ ~FIELD_CONTENT_REGEXP(value)
          THEN Result(st, hd, "TypeError", Undefined)
          ELSE IF Truthy(opts.path) /\ ~FIELD_CONTENT_REGEXP(opts.path)
          THEN Result(st, hd, "TypeError", Undefined)
          ELSE IF Truthy(opts.domain) /\ ~FIELD_CONTENT_REGEXP(opts.domain)
          THEN Result(st, hd, "TypeError", Undefined)
          ELSE
            LET r1 == setCookie(hd, name, value, opts)
            IN  IF r1.err # "none"
                THEN Result(st, r1.headers, r1.err, Undefined)
                ELSE IF SignedDefault(opts.signed)
                THEN IF ~HasKeys(keys)
                     THEN Result(st, r1.headers, "Error", Undefined)
                     ELSE LET sigName == name \o SIG
                              sigValue == sign(keys, Data(sigName, value))
                              r2 == setCookie(r1.headers, sigName, sigValue, opts)
                          IN  Result(st, r2.headers, r2.err, Undefined)
                ELSE Result(st, r1.headers, "none", Undefined)

\* get(name, opts?) where signedOpt is opts?.signed
get(st, hd, name, signedOpt) ==
    LET value == MapGet(st, name)
        signatureName == name \o SIG
        signature == MapGet(st, signatureName)
    IN  IF SignedDefault(signedOpt) /\ Truthy(signature)
        THEN IF ~HasKeys(keys)
             THEN Result(st, hd, "Error", Undefined)
             ELSE
               LET data == Data(name, value)
                   idx == index(keys, data, signature)
               IN  IF idx = -1
                   THEN LET d == delete(st, hd, signatureName, NoOpts)
                        IN  Result(d.store, d.headers, d.err, Undefined)
                   ELSE IF idx # 0
                   THEN LET s == set(st, hd, signatureName, sign(keys, data),
                                        [EmptyOpts EXCEPT !.signed = False])
                        IN  Result(s.store, s.headers, s.err, value)
                   ELSE Result(st, hd, "none", value)
        ELSE Result(st, hd, "none", value)

\* clear()
clear(st, hd) ==
    LET Skipped(key) ==
          LET idx == LastIndexOf(key, SIG)
          IN  idx # -1 /\ Has(st, Substring0(key, idx))
        Emitted(e) == ~Skipped(e[1])
        todo == SelectSeq(st, Emitted)
        out == [i \in 1..Len(todo) |-> deleteCookie(<<>>, todo[i][1])[1]]
    IN  Result(<<>>, hd \o out, "none", Undefined)

----------------------------------------------------------------------------
(* Inputs *)

\* bound on the calls of one exchange, all inputs
MaxCalls == 1

\* bound on the calls of one exchange, scenario inputs
MaxSeqCalls == 3

\* "n", "n.sig", "b\n", "n.sigx", "m"
N == <<110>>
NSig == N \o SIG
BadName == <<98, 10>>
NSigX == N \o SIG \o <<120>>
M == <<109>>

\* "a", "b", "\n", "x"
A == <<97>>
B == <<98>>
BadValue == <<10>>
X == <<120>>

\* secrets "k1", "k2"
K1 == <<107, 49>>
K2 == <<107, 50>>

Names == {N, NSig, BadName}

Values == {A, B, Null, Undefined, BadValue}

Keyrings == {<<>>, <<K1>>, <<K2, K1>>}

\* the Cookie headers a request may carry, as getCookies parses them
RequestCookies ==
    { <<>>,
      << <<N, A>> >>,
      << <<N, A>>, <<NSig, Hmac(Data(N, A), K1)>> >>,
      << <<N, A>>, <<NSig, X>> >>,
      << <<N, A>>, <<NSig, <<>> >> >>,
      << <<N, A>>, <<NSigX, B>> >> }

SetOptions ==
    { NoOpts,
      [EmptyOpts EXCEPT !.signed = True],
      [EmptyOpts EXCEPT !.signed = False],
      [EmptyOpts EXCEPT !.overwrite = True],
      [EmptyOpts EXCEPT !.secure = True],
      [EmptyOpts EXCEPT !.sameSite = X],
      [EmptyOpts EXCEPT !.sameSite = True],
      [EmptyOpts EXCEPT !.sameSite = <<76, 97, 120>>],
      [EmptyOpts EXCEPT !.path = BadValue],
      [EmptyOpts EXCEPT !.domain = BadValue],
      [EmptyOpts EXCEPT !.maxAge = X] }

DeleteOptions ==
    { NoOpts,
      EmptyOpts,
      [EmptyOpts EXCEPT !.secure = True],
      [EmptyOpts EXCEPT !.sameSite = X] }

GetOptions ==
    { NoOpts,
      [EmptyOpts EXCEPT !.signed = True],
      [EmptyOpts EXCEPT !.signed = False] }

----------------------------------------------------------------------------
(* The jar: one instance per request/response exchange *)

\* constructor(req, res, opts)
Construct(cookies, ks, sec) ==
    /\ store = cookies
    /\ headers = <<>>
    /\ keys = ks
    /\ secure = sec
    /\ call = [op |-> "new", name |-> <<>>, value |-> Undefined, opts |-> NoOpts]
    /\ ret = [err |-> "none", val |-> Undefined]
    /\ pre = [store |-> cookies, headers |-> <<>>]
    /\ ncalls = 0

\* a method call completes (returns or throws) and is recorded
Complete(op, name, value, opts, r) ==
    /\ store' = r.store
    /\ headers' = r.headers
    /\ ret' = [err |-> r.err, val |-> r.ret]
    /\ call' = [op |-> op, name |-> name, value |-> value, opts |-> opts]
    /\ pre' = [store |-> store, headers |-> headers]
    /\ ncalls' = ncalls + 1
    /\ UNCHANGED <<keys, secure>>

SetCall(max, name, value, opts) ==
    /\ ncalls < max
    /\ Complete("set", name, value, opts,
                set(store, headers, name, value, opts))

GetCall(max, name, opts) ==
    /\ ncalls < max
    /\ Complete("get", name, Undefined, opts,
                get(store, headers, name, opts.signed))

DeleteCall(max, name, opts) ==
    /\ ncalls < max
    /\ Complete("delete", name, Undefined, opts,
                delete(store, headers, name, opts))

ClearCall(max) ==
    /\ ncalls < max
    /\ Complete("clear", <<>>, Undefined, NoOpts, clear(store, headers))

Init ==
    \E cookies \in RequestCookies, ks \in Keyrings, sec \in BOOLEAN :
        Construct(cookies, ks, sec)

Next ==
    \/ \E name \in Names, value \in Values, opts \in SetOptions :
          SetCall(MaxCalls, name, value, opts)
    \/ \E name \in Names, opts \in GetOptions : GetCall(MaxCalls, name, opts)
    \/ \E name \in Names, opts \in DeleteOptions : DeleteCall(MaxCalls, name, opts)
    \/ ClearCall(MaxCalls)

Spec == Init /\ [][Next]_vars

----------------------------------------------------------------------------
(* Scenario inputs: one cookie name, valid values, the signing and         *)
(* overwrite options; long enough for set; set; set and set; get.          *)

SeqNames == {N}

SeqValues == {A, B}

SeqSetOptions ==
    { NoOpts,
      [EmptyOpts EXCEPT !.signed = True],
      [EmptyOpts EXCEPT !.signed = False],
      [EmptyOpts EXCEPT !.overwrite = True] }

SeqDeleteOptions == {NoOpts, EmptyOpts}

NextSeq ==
    \/ \E name \in SeqNames, value \in SeqValues, opts \in SeqSetOptions :
          SetCall(MaxSeqCalls, name, value, opts)
    \/ \E name \in SeqNames, opts \in GetOptions : GetCall(MaxSeqCalls, name, opts)
    \/ \E name \in SeqNames, opts \in SeqDeleteOptions :
          DeleteCall(MaxSeqCalls, name, opts)
    \/ ClearCall(MaxSeqCalls)

SpecSeq == Init /\ [][NextSeq]_vars

----------------------------------------------------------------------------
(* Vocabulary of the properties *)

\* the directives the last call emitted
Emitted == SubSeq(headers, Len(pre.headers) + 1, Len(headers))

\* the last call left the response headers as they were
NothingEmitted == headers = pre.headers

\* the last call was set(n, v, ...) with a valid name and a valid value
ValidSet ==
    /\ call.op = "set"
    /\ FIELD_CONTENT_REGEXP(call.name)
    /\ Truthy(call.value)
    /\ FIELD_CONTENT_REGEXP(call.value)

\* the name of the last call was not in the store when it was made
FreshName == ~Has(pre.store, call.name)

\* position of the stored signature of name in st, for the data get checks
StoredPosition(st, name) ==
    index(keys, Data(name, MapGet(st, name)), MapGet(st, name \o SIG))

\* a directive that expires its cookie
IsExpiring(cookie) == cookie.expires = Epoch

\* a name is a shadow name when it ends in ".sig"
EndsInSig(name) ==
    Len(name) >= Len(SIG) /\ SubSeq(name, Len(name) - Len(SIG) + 1, Len(name)) = SIG

\* every base entry has its shadow entry and every shadow entry its base
Paired(st) ==
    \A i \in 1..Len(st) :
        IF EndsInSig(st[i][1])
        THEN Has(st, SubSeq(st[i][1], 1, Len(st[i][1]) - Len(SIG)))
        ELSE Has(st, st[i][1] \o SIG)

----------------------------------------------------------------------------
(* Properties *)

\* C1 (signed round trip): on a jar with keys, get(n, {signed: true}) made
\* right after a successful set(n, v, {signed: true}) of a valid, fresh name n
\* and a valid value v returns v.
C1_SignedRoundTrip ==
    [][ ( /\ ValidSet
          /\ FreshName
          /\ HasKeys(keys)
          /\ call.opts.signed = True
          /\ call'.op = "get"
          /\ call'.name = call.name
          /\ call'.opts.signed = True )
        => ( ret'.err = "none" /\ ret'.val = call.value ) ]_vars

\* signing is not applied to a call: the jar has no keys and signed is left
\* unset, or signed is false
Unsigned(c) ==
    \/ c.opts.signed = False
    \/ (c.opts.signed = Undefined /\ ~HasKeys(keys))

\* C2 (unsigned round trip): get(n) made after set(n, v) of a valid, fresh
\* name n and a valid value v, signing applied to neither call, returns v.
C2_UnsignedRoundTrip ==
    [][ ( /\ ValidSet
          /\ FreshName
          /\ Unsigned(call)
          /\ call'.op = "get"
          /\ call'.name = call.name
          /\ Unsigned(call') )
        => ( ret'.err = "none" /\ ret'.val = call.value ) ]_vars

\* C3 (forged signature): when the store holds n and an n.sig that verifies
\* "n=<value>" under no key, get(n) with signing applicable returns undefined
\* and removes n.sig, and the entry of n stays as it was.
C3_ForgedSignature ==
    ( /\ call.op = "get"
      /\ FIELD_CONTENT_REGEXP(call.name)
      /\ HasKeys(keys)
      /\ SignedDefault(call.opts.signed)
      /\ Has(pre.store, call.name)
      /\ Has(pre.store, call.name \o SIG)
      /\ StoredPosition(pre.store, call.name) = -1 )
    => ( /\ ret.err = "none"
         /\ ret.val = Undefined
         /\ ~Has(store, call.name \o SIG)
         /\ Has(store, call.name)
         /\ MapGet(store, call.name) = MapGet(pre.store, call.name) )

\* C4 (key rotation): when the stored n.sig verifies "n=<value>" only under
\* an older key, get(n) with signing returns the value, emits one directive
\* for n.sig and stores the signature under the current key, so that the
\* stored signature verifies at position 0 afterwards.
C4_KeyRotationResigns ==
    ( /\ call.op = "get"
      /\ HasKeys(keys)
      /\ SignedDefault(call.opts.signed)
      /\ Has(pre.store, call.name)
      /\ Has(pre.store, call.name \o SIG)
      /\ StoredPosition(pre.store, call.name) > 0 )
    => ( /\ ret.err = "none"
         /\ ret.val = MapGet(pre.store, call.name)
         /\ Len(Emitted) = 1
         /\ Emitted[1].name = call.name \o SIG
         /\ MapGet(store, call.name \o SIG)
              = sign(keys, Data(call.name, MapGet(pre.store, call.name)))
         /\ StoredPosition(store, call.name) = 0 )

\* C5 (overwrite policy): set(n, b) of a name already in the store leaves the
\* store and the headers as they were unless overwrite is true, and with
\* overwrite: true it emits a directive and leaves b stored under n.
C5_OverwritePolicy ==
    ( /\ ValidSet
      /\ ~FreshName
      /\ call.opts \in {NoOpts, [EmptyOpts EXCEPT !.overwrite = True]} )
    => IF call.opts.overwrite = True
       THEN /\ ret.err = "none"
            /\ Len(Emitted) >= 1
            /\ Emitted[1].name = call.name
            /\ MapGet(store, call.name) = call.value
       ELSE /\ ret.err = "none"
            /\ store = pre.store
            /\ NothingEmitted

\* C6 (signing without keys): on a jar without keys, set(n, v, {signed: true})
\* of a valid, fresh name and a valid value throws, and it leaves the headers
\* and the store as they were.
C6_SigningWithoutKeysAtomic ==
    ( /\ ValidSet
      /\ FreshName
      /\ ~HasKeys(keys)
      /\ call.opts = [EmptyOpts EXCEPT !.signed = True] )
    => ( /\ ret.err # "none"
         /\ NothingEmitted
         /\ store = pre.store )

\* C7 (a signed set emits two directives): on a jar with keys,
\* set(n, v, {signed: true}) of a valid, fresh name emits one directive for n
\* carrying v and one for n.sig carrying sign("n=v"), no other directive, and
\* leaves the store with the two new entries n -> v and n.sig -> sign("n=v").
C7_SignedSetTwoDirectives ==
    ( /\ ValidSet
      /\ FreshName
      /\ ~Has(pre.store, call.name \o SIG)
      /\ HasKeys(keys)
      /\ call.opts = [EmptyOpts EXCEPT !.signed = True] )
    => ( /\ ret.err = "none"
         /\ Len(Emitted) = 2
         /\ Emitted[1].name = call.name
         /\ Emitted[1].value = call.value
         /\ Emitted[2].name = call.name \o SIG
         /\ Emitted[2].value = sign(keys, Data(call.name, call.value))
         /\ store = pre.store \o << <<call.name, call.value>>,
                                    <<call.name \o SIG,
                                      sign(keys, Data(call.name, call.value))>> >> )

\* C8 (base/shadow pairing): on a jar with keys, a set, delete or clear call
\* with signing left at its default, made on a store in which every base name
\* has its shadow and every shadow its base, leaves such a store.
C8_PairingInvariant ==
    [][ ( /\ HasKeys(keys)
          /\ Paired(store)
          /\ call'.op \in {"set", "delete", "clear"}
          /\ call'.opts.signed = Undefined
          /\ ret'.err = "none" )
        => Paired(store') ]_vars

\* the sameSite inputs of the enumerated table: true, and the case variants
\* of "strict", "lax" and "none"
SameSiteListed(x) ==
    x = True \/ (IsString(x) /\ SAME_SITE(ToLowerCase(x)) # Undefined
                             /\ ToLowerCase(x) # <<116, 114, 117, 101>>)

\* the last call has an argument that fails validation
InvalidArgument ==
    \/ ~FIELD_CONTENT_REGEXP(call.name)
    \/ (call.op = "set" /\ Truthy(call.value) /\ ~FIELD_CONTENT_REGEXP(call.value))
    \/ (Truthy(call.opts.path) /\ ~FIELD_CONTENT_REGEXP(call.opts.path))
    \/ (Truthy(call.opts.domain) /\ ~FIELD_CONTENT_REGEXP(call.opts.domain))
    \/ (Truthy(call.opts.sameSite) /\ ~SameSiteListed(call.opts.sameSite))
    \/ (Truthy(call.opts.maxAge) /\ IsString(call.opts.maxAge)
          /\ ms(call.opts.maxAge) = Undefined)

\* C9 (validation errors are atomic): a set or delete call with an invalid
\* name, value, path, domain, sameSite or maxAge string throws a TypeError and
\* leaves the store and the headers as they were.
C9_ValidationAtomic ==
    ( call.op \in {"set", "delete"} /\ InvalidArgument )
    => ( /\ ret.err = "TypeError"
         /\ store = pre.store
         /\ NothingEmitted )

\* C10 (secure policy): set(n, v, {secure: true}) of a valid, fresh name on a
\* jar constructed without the secure flag throws an Error, emits nothing and
\* leaves n out of the store; on a jar constructed with the flag it returns
\* and has emitted the directive for n with the secure attribute.
C10_SecurePolicy ==
    ( /\ ValidSet
      /\ FreshName
      /\ call.opts = [EmptyOpts EXCEPT !.secure = True] )
    => IF secure
       THEN /\ ret.err = "none"
            /\ Len(Emitted) >= 1
            /\ Emitted[1].name = call.name
            /\ Emitted[1].value = call.value
            /\ Emitted[1].secure = True
       ELSE /\ ret.err = "Error"
            /\ NothingEmitted
            /\ store = pre.store
            /\ ~Has(store, call.name)

\* C10 witness: a secure cookie was refused on a jar without the secure flag
C10_Witness ==
    /\ ValidSet
    /\ FreshName
    /\ call.opts = [EmptyOpts EXCEPT !.secure = True]
    /\ ~secure
    /\ ret.err = "Error"

\* the one directive delete(name) emits when called without options
ExpiringDirective(name) ==
    [name |-> name, value |-> <<>>, secure |-> Undefined, domain |-> Undefined,
     path |-> Undefined, httpOnly |-> Undefined, sameSite |-> Undefined,
     maxAge |-> Undefined, expires |-> Epoch]

\* the last call was set(n, null, ...) or set(n, undefined, ...) of a valid name
NullishSet ==
    /\ call.op = "set"
    /\ call.value \in {Null, Undefined}
    /\ FIELD_CONTENT_REGEXP(call.name)

C12_Deletion ==
    ( call.op = "delete" /\ ret.err = "none" )
    => ( /\ ~Has(store, call.name)
         /\ get(store, headers, call.name, Undefined).err = "none"
         /\ get(store, headers, call.name, Undefined).ret = Undefined
         /\ \E i \in 1..Len(Emitted) :
               Emitted[i].name = call.name /\ IsExpiring(Emitted[i]) )

\* C12 witness: delete(n, opts) with an options argument removed a present n
C12_Witness ==
    /\ call.op = "delete"
    /\ call.opts.given
    /\ ret.err = "none"
    /\ Has(pre.store, call.name)
    /\ ~Has(store, call.name)

\* the number of directives the last call emitted for name
EmittedFor(name) == Cardinality({i \in 1..Len(Emitted) : Emitted[i].name = name})

\* name is a shadow entry of st whose base name is in st
ShadowWithBase(st, name) ==
    EndsInSig(name) /\ Has(st, SubSeq(name, 1, Len(name) - Len(SIG)))

\* C13 (clear): clear() empties the store and emits only expiring
\* directives: none for a name ending in ".sig" whose base name was in the
\* store, and exactly one for every other name that was in the store.
C13_Clear ==
    call.op = "clear"
    => ( /\ store = <<>>
         /\ \A i \in 1..Len(Emitted) : IsExpiring(Emitted[i])
         /\ \A i \in 1..Len(pre.store) :
               EmittedFor(pre.store[i][1]) =
                 IF ShadowWithBase(pre.store, pre.store[i][1]) THEN 0 ELSE 1 )

\* the SameSite attribute the table gives a listed input
SameSiteOf(x) == SAME_SITE(ToLowerCase(Interp(x)))

\* the last call was a set of a valid, fresh name and a valid value, or a
\* delete of a valid name, whose only option is a truthy sameSite
SameSiteCall ==
    /\ \/ (ValidSet /\ FreshName)
       \/ (call.op = "delete" /\ FIELD_CONTENT_REGEXP(call.name))
    /\ Truthy(call.opts.sameSite)
    /\ call.opts = [EmptyOpts EXCEPT !.sameSite = call.opts.sameSite]

\* C14 (sameSite handling): a call with sameSite true or a case variant of
\* "strict", "lax" or "none" returns and emits its directive with Strict, Lax
\* or None; with any other truthy sameSite it throws a TypeError and emits
\* nothing.
C14_SameSite ==
    SameSiteCall
    => IF SameSiteListed(call.opts.sameSite)
       THEN /\ ret.err = "none"
            /\ Len(Emitted) >= 1
            /\ Emitted[1].name = call.name
            /\ Emitted[1].sameSite = SameSiteOf(call.opts.sameSite)
       ELSE /\ ret.err = "TypeError"
            /\ NothingEmitted

\* the options of the last call with signed spelled out as its default
WithDefaultSigned ==
    [OrEmpty(call.opts) EXCEPT !.signed = IF HasKeys(keys) THEN True ELSE False]

\* what the last call would have left had it been made with signed spelled out
SpelledOut ==
    IF call.op = "set"
    THEN set(pre.store, pre.headers, call.name, call.value, WithDefaultSigned)
    ELSE get(pre.store, pre.headers, call.name, WithDefaultSigned.signed)

\* the last call left what the call with signed spelled out leaves
AsSpelledOut ==
    /\ store = SpelledOut.store
    /\ headers = SpelledOut.headers
    /\ ret.err = SpelledOut.err
    /\ ret.val = SpelledOut.ret

\* set(n, v, {signed: false}) of a valid, fresh name on a jar with keys emits
\* the one directive for n and adds no n.sig entry to the store
UnsignedSetOneDirective ==
    ( /\ ValidSet
      /\ FreshName
      /\ HasKeys(keys)
      /\ call.opts = [EmptyOpts EXCEPT !.signed = False] )
    => ( /\ ret.err = "none"
         /\ Len(Emitted) = 1
         /\ Emitted[1].name = call.name
         /\ Emitted[1].value = call.value
         /\ Has(store, call.name \o SIG) => Has(pre.store, call.name \o SIG) )

C16_NeverUnverified ==
    ( /\ call.op = "get"
      /\ HasKeys(keys)
      /\ SignedDefault(call.opts.signed)
      /\ ret.err = "none"
      /\ ret.val # Undefined )
    => ( /\ Has(pre.store, call.name \o SIG)
         /\ index(keys, Data(call.name, ret.val),
                  MapGet(pre.store, call.name \o SIG)) >= 0 )

\* the last directive the jar has emitted for name
LastDirective(name) ==
    headers[CHOOSE i \in 1..Len(headers) :
               /\ headers[i].name = name
               /\ \A j \in (i + 1)..Len(headers) : headers[j].name # name]

\* the names whose entry the last call added, removed or changed
ChangedNames ==
    {pre.store[i][1] : i \in {j \in 1..Len(pre.store) :
        ~Has(store, pre.store[j][1])
        \/ MapGet(store, pre.store[j][1]) # pre.store[j][2]}}
    \cup {store[i][1] : i \in {j \in 1..Len(store) : ~Has(pre.store, store[j][1])}}

\* C17 (store/header synchronisation): for every name the jar has emitted a
\* directive for, the store agrees with the last such directive (the name is
\* absent after an expiring one, and maps to the directive's value after any
\* other), and a call changes the store only at names it emits a directive for.
C17_StoreHeaderSync ==
    /\ \A i \in 1..Len(headers) :
          LET name == headers[i].name
              last == LastDirective(name)
          IN  IF IsExpiring(last)
              THEN ~Has(store, name)
              ELSE Has(store, name) /\ MapGet(store, name) = last.value
    /\ \A name \in ChangedNames : EmittedFor(name) >= 1

\* C18 (validation precedes the overwrite no-op): set(n, v, opts) of a valid
\* name with an invalid value, path or domain throws a TypeError, also when
\* n is already in the store and overwrite is not requested.
C18_ValidationBeforeNoOp ==
    ( /\ call.op = "set"
      /\ FIELD_CONTENT_REGEXP(call.name)
      /\ \/ (Truthy(call.value) /\ ~FIELD_CONTENT_REGEXP(call.value))
         \/ (Truthy(call.opts.path) /\ ~FIELD_CONTENT_REGEXP(call.opts.path))
         \/ (Truthy(call.opts.domain) /\ ~FIELD_CONTENT_REGEXP(call.opts.domain)) )
    => ret.err = "TypeError"

\* the stored n.sig is the digest of "n=<stored value>" under the current key
SignedByCurrentKey(st, name) ==
    /\ HasKeys(keys)
    /\ Has(st, name \o SIG)
    /\ MapGet(st, name \o SIG) = Hmac(Data(name, MapGet(st, name)), keys[1])

\* C19 (reads without repair have no side effect): get(n) with signing not
\* applicable, and get(n) with signing applicable whose n.sig verifies at
\* position 0, return the stored value of n and leave the store and the
\* headers as they were.
C19_ReadsSideEffectFree ==
    ( /\ call.op = "get"
      /\ \/ Unsigned(call)
         \/ ( /\ call.opts.signed \in {Undefined, True}
              /\ SignedByCurrentKey(pre.store, call.name) ) )
    => ( /\ ret.err = "none"
         /\ ret.val = MapGet(pre.store, call.name)
         /\ store = pre.store
         /\ NothingEmitted )

\* C19 witness: a signed get whose signature verified under the current key
C19_Witness ==
    /\ call.op = "get"
    /\ call.opts.signed = True
    /\ SignedByCurrentKey(pre.store, call.name)
    /\ ret.val = A

----------------------------------------------------------------------------
(* Permutation inputs: set calls only, on several names, one of them the   *)
(* shadow name of another, with values that set and values that delete.    *)

\* bound on the calls of one exchange, permutation inputs
MaxPermCalls == 2

PermNames == {N, NSig, M}

PermValues == {A, B, Null}

PermSetOptions ==
    { NoOpts,
      [EmptyOpts EXCEPT !.overwrite = True],
      [EmptyOpts EXCEPT !.signed = True],
      [EmptyOpts EXCEPT !.signed = False] }

NextPerm ==
    \E name \in PermNames, value \in PermValues, opts \in PermSetOptions :
        SetCall(MaxPermCalls, name, value, opts)

SpecPerm == Init /\ [][NextPerm]_vars

\* the entries of a list from a position on, as a set
Range(q, from) == {q[i] : i \in (from + 1)..Len(q)}

\* the jar after the last call and the next one, had they been made in the
\* other order: the next call first, from the state before the last call
\* (a one-element set, so that each call is computed once)
Swapped ==
    UNION { { [firstErr |-> first.err, secondErr |-> second.err,
               store |-> second.store, headers |-> second.headers]
              : second \in {set(first.store, first.headers,
                                call.name, call.value, call.opts)} }
            : first \in {set(pre.store, pre.headers,
                             call'.name, call'.value, call'.opts)} }

\* C20 (set calls on distinct names commute): two successive set calls on
\* different names that both return leave the same store entries, and have
\* emitted the same set of directives, as the same two calls made in the
\* other order, which both return as well.  Every permutation of a sequence
\* of such calls is a product of these exchanges of neighbours.
C20_SetsOnDistinctNamesCommute ==
    [][ ( /\ call.op = "set"
          /\ ret.err = "none"
          /\ call'.op = "set"
          /\ ret'.err = "none"
          /\ call'.name # call.name )
        => \A other \in Swapped :
               /\ other.firstErr = "none"
               /\ other.secondErr = "none"
               /\ Range(store', 0) = Range(other.store, 0)
               /\ Range(headers', Len(pre.headers))
                    = Range(other.headers, Len(pre.headers)) ]_vars

\* C20 witness: a deleting set and an emitting set on another name, both done
C20_Witness ==
    /\ ncalls >= 2
    /\ call.op = "set"
    /\ ret.err = "none"
    /\ Len(store) < Len(pre.store)
    /\ pre.headers # <<>>
    /\ \A i \in 1..Len(pre.headers) : pre.headers[i].name # call.name
    /\ \E i \in 1..Len(pre.headers) : ~IsExpiring(pre.headers[i])

====
